---------------------------- MODULE Spec2Model ----------------------------
(***************************************************************************)
(* Live bet progress engine of the MLB bet tracker                         *)
(* (src/src/live_tracker.py, class LiveGameTracker).                       *)
(*                                                                         *)
(* Numbers.  Target values are multiples of one half (1.5, 2, 2.5, ...):   *)
(* the model keeps target2 = 2 * target_value as an integer.  Stat values  *)
(* and scores are whole numbers.  The thresholds of the code become        *)
(*    current >= target * 0.5    <=>   4 * current >= target2              *)
(*    current >= target * 0.8    <=>   5 * current >= 2 * target2          *)
(*    current >= target * 0.75   <=>   8 * current >= 3 * target2          *)
(*    target <= 2.5              <=>   target2 <= 5                        *)
(*    target <= 4.0              <=>   target2 <= 8                        *)
(*    current > target           <=>   2 * current > target2               *)
(* (for these values the double-precision products of the code compare     *)
(* exactly as the rationals do).                                           *)
(***************************************************************************)
EXTENDS Integers, Sequences, FiniteSets, TLC

VARIABLES
    bets,               \* table bets: bet_id -> row (the fields the tracker reads, and status)
    games,              \* table games: game_id -> [status, inning, home_score, away_score,
                        \* game_date] (inning 0 is NULL; game_date "today" or "past")
    player_game_stats,  \* per bet: the stat column read for it, in its subject's line for its game
    bet_tracking,       \* table bet_tracking: bet_id -> [exists, current_value, milestone_alerts]
                        \* (milestone_alerts: milestone key -> [value])
    message_log,        \* table message_log: record -> number of such rows
    pc,                 \* position of the tracker run: "idle", "game", "bets", "sweep"
    active_bets,        \* rows fetched by get_active_game_bets: bet_id -> status at fetch time
    games_to_track,     \* games of this run still to update, in order
    bets_todo,          \* bets of the current game still to evaluate, in order
    game_update,        \* dict returned by update_game_stats for the current game
    failures,           \* number of calls that raised so far (persistence failures)
    tracking_summary,   \* summary of the run: [returned, bets_updated, messages_queued, errors]
    exit_code,          \* exit status of the tracking script: 0, 1, or -1 while it runs
    skipped_games,      \* history: the games of this run whose update returned no data
    fn                  \* arguments and result of one call of the milestone decision alone

vars == <<bets, games, player_game_stats, bet_tracking, message_log, pc,
          active_bets, games_to_track, bets_todo, game_update, failures,
          tracking_summary, exit_code, skipped_games, fn>>

-----------------------------------------------------------------------------
(* Bounds of the model *)

\* largest value of a stat column and of a score the feed reports
MaxStat == 3
MaxScore == 2
\* rows of message_log with the same content are counted up to MaxCopies
MaxCopies == 2
\* calls that raise in one behaviour
MaxFailures == 2
\* arguments of the milestone decision called alone: 2 * target, values, alerts sent
MaxTarget2 == 10
MaxValue == 5
MaxAlerts == 2
\* feed batting lines: hits, and doubles, triples and home runs each
MaxHits == 4
MaxExtraBases == 2
\* the notification queue: the clock in units of ten minutes, the records other
\* than pregame alerts, the LIMIT of one selection (10 in the code)
MaxClock == 6
MaxMessages == 2
MaxBatch == 2

-----------------------------------------------------------------------------
(* Tables and their domains *)

None == "None"
\* a bet without a tracking row, a subject without a stat line
\* the empty JSON object of milestone_alerts
NoAlerts == [k \in {} |-> [value |-> 0]]

NoTracking == [exists |-> FALSE, current_value |-> 0, milestone_alerts |-> NoAlerts]
NoStat == [exists |-> FALSE, value |-> 0]

BetOrder == <<"b1", "b2">>
BetIds == {BetOrder[i] : i \in 1..Len(BetOrder)}
GameIds == {"g1", "g2"}

\* g.status IN (...) of get_active_game_bets
ActiveStatuses == {"In Progress", "Live", "Warmup", "Pre-Game", "Scheduled"}
\* status in ['Final', 'Game Over', 'Completed'] of check_bet_progress and of the sweep
TerminalStatuses == {"Final", "Game Over", "Completed"}
\* status of the feed: detailedState with its abstractGameState.  A game called
\* early is Final in the abstract state under a detailedState of its own.
FeedStatuses ==
    {[detailedState |-> "Scheduled", abstractGameState |-> "Preview"],
     [detailedState |-> "In Progress", abstractGameState |-> "Live"],
     [detailedState |-> "Final", abstractGameState |-> "Final"],
     [detailedState |-> "Completed Early", abstractGameState |-> "Final"]}

\* bet types with a stat column (stat_mapping); the column is read from
\* pitcher_game_stats or player_game_stats as one number
StatMapping == {"hrs", "home runs", "hits", "h", "total bases", "bases", "ks",
                "strikeouts", "rbis", "rbi", "stolen bases", "sb", "runs",
                "walks", "bb"}
\* bet types of the milestone branches: player props, strikeouts, moneyline
PlayerProps == {"hrs", "home runs", "hits", "h", "rbis", "rbi", "sb",
                "stolen bases", "total bases", "bases"}
Strikeouts == {"ks", "strikeouts"}
Moneyline == {"moneyline", "ml"}

Min(a, b) == IF a < b THEN a ELSE b


-----------------------------------------------------------------------------
(* check_bet_progress *)

\* str() of a Python int and of a whole-valued Python float
StrInt(n) == ToString(n)
StrFloat(n) == ToString(n) \o ".0"

\* prev_value and alerts_sent, from the bet's tracking row
PrevValue(row) == IF row.exists THEN row.current_value ELSE 0
AlertsSent(row) == IF row.exists THEN Cardinality(DOMAIN row.milestone_alerts) ELSE 0

\* the lead of the moment counted for a moneyline bet
CurrentValueOfLead(bet, stat, game) ==
    IF bet.bet_type \in StatMapping
    THEN IF stat.exists THEN stat.value ELSE 0
    ELSE IF bet.bet_type \in Moneyline
    THEN IF bet.team = "home"
         THEN IF game.home_score > game.away_score THEN 1 ELSE 0
         ELSE IF game.away_score > game.home_score THEN 1 ELSE 0
    ELSE IF bet.bet_type = "total"
    THEN game.home_score + game.away_score
    ELSE 0

\* a missing line counted as -1
CurrentValueOfLine(bet, stat, game) ==
    IF bet.bet_type \in StatMapping
    THEN IF stat.exists THEN stat.value ELSE -1
    ELSE IF bet.bet_type \in Moneyline
    THEN IF game.status \in TerminalStatuses
         THEN IF bet.team = "home"
              THEN IF game.home_score > game.away_score THEN 1 ELSE 0
              ELSE IF game.away_score > game.home_score THEN 1 ELSE 0
         ELSE 0
    ELSE IF bet.bet_type = "total"
    THEN game.home_score + game.away_score
    ELSE 0

\* current_value: the stat column of the subject's line (0 without a line), the
\* winner of a finished game for a moneyline, the runs of both teams for a total
CurrentValue(bet, stat, game) ==
    IF bet.bet_type \in StatMapping
    THEN IF stat.exists THEN stat.value ELSE 0
    ELSE IF bet.bet_type \in Moneyline
    THEN IF game.status \in TerminalStatuses
         THEN IF bet.team = "home"
              THEN IF game.home_score > game.away_score THEN 1 ELSE 0
              ELSE IF game.away_score > game.home_score THEN 1 ELSE 0
         ELSE 0
    ELSE IF bet.bet_type = "total"
    THEN game.home_score + game.away_score
    ELSE 0

\* str(current_value): a float for the stat columns, an int for the team bets
StrCurrent(bet_type, cur) ==
    IF bet_type \in StatMapping THEN StrFloat(cur) ELSE StrInt(cur)

NoMilestone == [milestone_hit |-> None, milestone_type |-> None]

\* first-progress branch of the low targets
FirstProgress(prev, cur, alerts) ==
    IF prev = 0 /\ cur >= 1 /\ alerts = 0
    THEN [milestone_hit |-> StrInt(1), milestone_type |-> "first_progress"]
    ELSE NoMilestone

\* the second stage at 75% of the target
HalfwayThreeQuarters(bet_type, target2, prev, cur, alerts) ==
    IF 4 * cur >= target2 /\ 4 * prev < target2 /\ alerts = 0
    THEN [milestone_hit |-> StrCurrent(bet_type, cur), milestone_type |-> "halfway"]
    ELSE IF 8 * cur >= 3 * target2 /\ 8 * prev < 3 * target2 /\ alerts < 2
    THEN [milestone_hit |-> StrCurrent(bet_type, cur), milestone_type |-> "near_complete"]
    ELSE NoMilestone

\* 50% / 80% branch; milestone_hit is current_value
HalfwayNearComplete(bet_type, target2, prev, cur, alerts) ==
    IF 4 * cur >= target2 /\ 4 * prev < target2 /\ alerts = 0
    THEN [milestone_hit |-> StrCurrent(bet_type, cur), milestone_type |-> "halfway"]
    ELSE IF 5 * cur >= 2 * target2 /\ 5 * prev < 2 * target2 /\ alerts < 2
    THEN [milestone_hit |-> StrCurrent(bet_type, cur), milestone_type |-> "near_complete"]
    ELSE NoMilestone

\* the totals branch without the check of the alerts sent
TotalMilestoneAtEachCrossing(target2, prev, cur, alerts) ==
    IF target2 <= 5 THEN FirstProgress(prev, cur, alerts)
    ELSE IF 8 * cur >= 3 * target2 /\ 8 * prev < 3 * target2
         THEN [milestone_hit |-> StrCurrent("total", cur),
               milestone_type |-> "nearing_total"]
         ELSE NoMilestone

\* the totals branch: first score for a target of at most 2.5, else 75%
TotalMilestone(target2, prev, cur, alerts) ==
    IF target2 <= 5 THEN FirstProgress(prev, cur, alerts)
    ELSE IF 8 * cur >= 3 * target2 /\ 8 * prev < 3 * target2 /\ alerts = 0
         THEN [milestone_hit |-> StrCurrent("total", cur),
               milestone_type |-> "nearing_total"]
         ELSE NoMilestone

\* smart milestone detection: milestone_hit (as its str()) and milestone_type
MilestoneDecision(bet_type, target2, prev, cur, alerts) ==
    IF bet_type \in PlayerProps
    THEN IF target2 <= 5 THEN FirstProgress(prev, cur, alerts)
         ELSE IF target2 <= 8
              THEN HalfwayNearComplete(bet_type, target2, prev, cur, alerts)
              ELSE HalfwayNearComplete(bet_type, target2, prev, cur, alerts)
    ELSE IF bet_type \in Strikeouts
    THEN IF target2 <= 5 THEN FirstProgress(prev, cur, alerts)
         ELSE HalfwayNearComplete(bet_type, target2, prev, cur, alerts)
    ELSE IF bet_type \in Moneyline
    THEN IF cur = 1 /\ prev = 0 /\ alerts = 0
         THEN [milestone_hit |-> "took_lead", milestone_type |-> "lead_change"]
         ELSE NoMilestone
    ELSE IF bet_type = "spread"
    THEN IF 2 * cur >= target2 /\ 2 * prev < target2 /\ alerts = 0
         THEN [milestone_hit |-> "covering", milestone_type |-> "spread_covered"]
         ELSE NoMilestone
    ELSE IF bet_type = "total"
    THEN TotalMilestone(target2, prev, cur, alerts)
    ELSE NoMilestone

\* str.lower() on the spellings of an operator the model stores
Lower(operator) ==
    CASE operator \in {"over", "Over", "OVER"} -> "over"
      [] operator \in {"under", "Under", "UNDER"} -> "under"
      [] operator \in {"exactly", "Exactly", "EXACTLY"} -> "exactly"
      [] OTHER -> operator

\* float(bet.get('target_value') or 1), twice: a missing target and a target of
\* 0 both give 1
TargetOrOne(target_null, target2) ==
    IF target_null \/ target2 = 0 THEN 2 ELSE target2

\* is_hit, by the lower-cased operator; "None" is the absent operator
IsHit(operator, bet_type, cur, target2) ==
    LET operator_lower == IF operator \in {None, ""} THEN None ELSE Lower(operator)
    IN  IF operator_lower = "over" THEN 2 * cur > target2
        ELSE IF operator_lower = "under" THEN 2 * cur < target2
        ELSE IF operator_lower = "exactly" THEN 2 * cur = target2
        ELSE IF operator = None /\ bet_type \in Moneyline THEN cur = 1
        ELSE FALSE

\* current_value / target * 100 without the cap
ProgressPercentageUncapped(cur, target2) ==
    IF target2 > 0 THEN [num |-> 200 * cur, den |-> target2] ELSE [num |-> 0, den |-> 1]

\* progress_percentage of the result, as the fraction num / den:
\* min(current_value / target * 100 if target > 0 else 0, 100)
ProgressPercentage(cur, target2) ==
    IF target2 > 0
    THEN IF 200 * cur > 100 * target2 THEN [num |-> 100, den |-> 1]
         ELSE [num |-> 200 * cur, den |-> target2]
    ELSE [num |-> 0, den |-> 1]

\* the dict check_bet_progress returns
CheckBetProgress(bet, row, stat, game) ==
    LET cur == CurrentValue(bet, stat, game)
        prev == PrevValue(row)
        alerts == AlertsSent(row)
        m == MilestoneDecision(bet.bet_type, bet.target2, prev, cur, alerts)
    IN  [current_value  |-> cur,
         target2        |-> bet.target2,
         progress_percentage |-> ProgressPercentage(cur, bet.target2),
         is_hit         |-> IsHit(bet.operator, bet.bet_type, cur, bet.target2),
         milestone_hit  |-> m.milestone_hit,
         milestone_type |-> m.milestone_type,
         last_value     |-> prev,
         alerts_sent    |-> alerts]

-----------------------------------------------------------------------------
(* queue_message *)

\* max_updates: 2 for a stake of 3 units or more or the Premium community, else 1
MaxUpdates(bet) ==
    IF bet.units >= 3 \/ bet.community_name = "StatEdge Premium" THEN 2 ELSE 1

\* milestone types queue_message has a text for
MessageTypes == {"first_progress", "halfway", "last_chance", "lead_change",
                 "spread_covered", "nearing_total", "near_complete"}

\* the budget check without the exemption of won messages
BudgetSpentForAll(bet, progress, message_type) ==
    progress.alerts_sent >= MaxUpdates(bet)

\* the budget check at the top of queue_message: TRUE when the call returns early
BudgetSpent(bet, progress, message_type) ==
    progress.alerts_sent >= MaxUpdates(bet) /\ message_type # "won"

\* milestone types whose text says how many more are needed
RemainingTypes == {"first_progress", "halfway", "nearing_total", "near_complete"}

\* needed_total: math.ceil(target) for a fractional target, int(target) + 1 for
\* a whole one
NeededTotal(target2) ==
    IF target2 % 2 = 1 THEN (target2 + 1) \div 2 ELSE target2 \div 2 + 1

\* remaining in the text of a milestone message (0 for a text without it)
Remaining(milestone_type, target2, cur) ==
    IF milestone_type \in {"first_progress", "nearing_total"}
    THEN IF NeededTotal(target2) - cur > 0 THEN NeededTotal(target2) - cur ELSE 0
    ELSE IF milestone_type \in {"halfway", "near_complete"}
    THEN target2 \div 2 - cur
    ELSE 0

\* the rows queue_message inserts into message_log: none or one.  milestone_key
\* names the milestone the text was written for (None for a won message).
QueueMessage(b, bet, progress, message_type) ==
    IF BudgetSpent(bet, progress, message_type) THEN {}
    ELSE IF message_type = "milestone" /\ progress.milestone_type # None
    THEN IF progress.milestone_type \in MessageTypes
         THEN {[bet_id |-> b, message_type |-> "milestone",
                milestone_type |-> progress.milestone_type,
                milestone_key |-> progress.milestone_hit]}
         ELSE {}
    ELSE IF message_type = "won"
    THEN {[bet_id |-> b, message_type |-> "won",
           milestone_type |-> None, milestone_key |-> None]}
    ELSE {}

\* INSERT INTO message_log
Inserted(log, rows) ==
    [r \in DOMAIN log \cup rows |->
        IF r \in rows
        THEN Min(MaxCopies, (IF r \in DOMAIN log THEN log[r] ELSE 0) + 1)
        ELSE log[r]]

-----------------------------------------------------------------------------
(* update_bet_tracking *)

\* milestone_alerts after the milestone is recorded under str(milestone_hit)
Recorded(milestone_alerts, progress) ==
    IF progress.milestone_hit # None
    THEN [k \in DOMAIN milestone_alerts \cup {progress.milestone_hit} |->
            IF k = progress.milestone_hit
            THEN [value |-> progress.current_value]
            ELSE milestone_alerts[k]]
    ELSE milestone_alerts

\* a record of the new milestone alone, the stored ones dropped
UpdatedTrackingFromEmpty(row, progress) ==
    [exists |-> TRUE,
     current_value |-> progress.current_value,
     milestone_alerts |-> Recorded(NoAlerts, progress)]

\* the row written by the UPDATE or INSERT
UpdatedTracking(row, progress) ==
    [exists |-> TRUE,
     current_value |-> progress.current_value,
     milestone_alerts |->
        Recorded(IF row.exists THEN row.milestone_alerts ELSE NoAlerts, progress)]

\* Live only once the bet has made progress
NewStatusAfterProgress(bet, progress, is_final) ==
    IF progress.is_hit THEN "Won"
    ELSE IF is_final THEN "Lost"
    ELSE IF bet.status = "Pending" /\ progress.current_value > 0 THEN "Live"
    ELSE None

\* new_status of update_bet_tracking; None leaves the bet's row alone
NewStatus(bet, progress, is_final) ==
    IF progress.is_hit THEN "Won"
    ELSE IF is_final THEN "Lost"
    ELSE IF bet.status = "Pending" THEN "Live"
    ELSE None

-----------------------------------------------------------------------------
(* The bets of the model: rows as log_bet inserts them, status Pending *)

Stakes == {[units |-> 1, community_name |-> "StatEdge"],
           [units |-> 3, community_name |-> "StatEdge"],
           [units |-> 1, community_name |-> "StatEdge Premium"]}
SmallStake == [units |-> 1, community_name |-> "StatEdge"]

BetRow(type, t2, op, stake, team) ==
    [game |-> "g1", bet_type |-> type, target2 |-> t2, operator |-> op,
     units |-> stake.units, community_name |-> stake.community_name,
     team |-> team, status |-> "Pending"]

\* home runs over 2 and over 3 at every stake, under and exactly; runs over 2 and
\* over 3; total bases over 1.5
PropRows ==
    {BetRow("hrs", t2, "over", stake, None) : t2 \in {4, 6}, stake \in Stakes}
    \cup {BetRow("hrs", t2, op, SmallStake, None) :
        t2 \in {4, 6}, op \in {"under", "exactly"}}
    \cup {BetRow("runs", t2, "over", SmallStake, None) : t2 \in {4, 6}}
    \cup {BetRow("total bases", 3, "over", SmallStake, None)}

\* the stake with a budget of two alerts
PremiumStake == [units |-> 1, community_name |-> "StatEdge Premium"]

\* a moneyline on either side (target 1, no operator), a total over 1.5, a
\* total over 3 at either budget
TeamRows ==
    {BetRow("moneyline", 2, None, SmallStake, team) : team \in {"home", "away"}}
    \cup {BetRow("total", 3, "over", SmallStake, None)}
    \cup {BetRow("total", 6, "over", stake, None) : stake \in {SmallStake, PremiumStake}}

\* the second bet of the game: a spread
SpreadRow == BetRow("spread", 3, "over", SmallStake, "home")

-----------------------------------------------------------------------------
(* get_active_game_bets *)

\* the fetch without the filter on the bet's status
ActiveGameBetsAnyStatus ==
    {b \in BetIds : /\ games[bets[b].game].game_date = "today"
                    /\ games[bets[b].game].status \in ActiveStatuses}

\* the fetch without the filter on the game's status
ActiveGameBetsAnyGame ==
    {b \in BetIds : /\ bets[b].status \in {"Pending", "Live"}
                    /\ games[bets[b].game].game_date = "today"}

\* b.status IN ('Pending', 'Live') AND g.game_date = (today) AND g.status IN (...)
ActiveGameBets ==
    {b \in BetIds : /\ bets[b].status \in {"Pending", "Live"}
                    /\ games[bets[b].game].game_date = "today"
                    /\ games[bets[b].game].status \in ActiveStatuses}

\* the bets of a set in the order of the fetch
RECURSIVE InOrder(_, _)
InOrder(order, set) ==
    IF order = <<>> THEN <<>>
    ELSE IF Head(order) \in set
         THEN <<Head(order)>> \o InOrder(Tail(order), set)
         ELSE InOrder(Tail(order), set)

\* games_to_track: the games of the fetched bets, in order of first appearance
RECURSIVE GamesOf(_)
GamesOf(order) ==
    IF order = <<>> THEN <<>>
    ELSE LET rest == GamesOf(Tail(order))
             g == bets[Head(order)].game
         IN  <<g>> \o SelectSeq(rest, LAMBDA x : x # g)

\* a game of today as update_todays_games inserts it: no inning yet
NewGame == [status |-> "Scheduled", inning |-> 0, home_score |-> 0, away_score |-> 0,
            game_date |-> "today"]

NoUpdate == [is_final |-> FALSE, status |-> None]
\* tracking_summary as track_all_live_games creates it; errors is len(errors),
\* returned is set once the function has returned the summary
NoSummary == [returned |-> FALSE, bets_updated |-> 0, messages_queued |-> 0, errors |-> 0]
NoCall == [done |-> FALSE, bet_type |-> None, target2 |-> 0, prev |-> 0, cur |-> 0,
           alerts |-> 0, inning |-> 0, milestone_hit |-> None, milestone_type |-> None,
           remaining |-> 0]

InitTables ==
    /\ games = [g \in GameIds |-> NewGame]
    /\ player_game_stats = [b \in BetIds |-> NoStat]
    /\ bet_tracking = [b \in BetIds |-> NoTracking]
    /\ message_log = [r \in {} |-> 0]
    /\ pc = "idle"
    /\ active_bets = [b \in {} |-> None]
    /\ games_to_track = <<>>
    /\ bets_todo = <<>>
    /\ game_update = NoUpdate
    /\ failures = 0
    /\ tracking_summary = NoSummary
    /\ exit_code = -1
    /\ skipped_games = {}

Init ==
    /\ \E row \in PropRows \cup TeamRows :
          bets = [b \in BetIds |-> IF b = "b1" THEN row ELSE SpreadRow]
    /\ InitTables
    /\ fn = NoCall

-----------------------------------------------------------------------------
(* track_all_live_games, step by step *)

\* a call raises: one more failure, while the model allows one
Raises == failures < MaxFailures /\ failures' = failures + 1

\* tracking_summary['errors'].append(error_msg)
Failed(summary) == [summary EXCEPT !.errors = @ + 1]

\* failure for any error
ExitCodeOnErrors(summary) == IF summary.errors > 0 THEN 1 ELSE 0

\* the exit status the script derives from the summary
ExitCode(summary) ==
    IF summary.errors > 0 /\ summary.bets_updated = 0 THEN 1 ELSE 0

\* the exception leaves track_all_live_games: no summary, the script exits with 1
Escapes(summary) ==
    /\ tracking_summary' = NoSummary
    /\ exit_code' = 1

\* track_all_live_games returns the summary and the script exits
Returns(summary) ==
    /\ tracking_summary' = [summary EXCEPT !.returned = TRUE]
    /\ exit_code' = ExitCode(summary)

\* fetch the active bets and group them by game; without active bets the run
\* returns at once (before the sweep)
StartRun ==
    /\ pc = "idle"
    /\ IF ActiveGameBets = {}
       THEN /\ Returns(NoSummary)
            /\ UNCHANGED <<pc, active_bets, games_to_track>>
       ELSE /\ active_bets' = [b \in ActiveGameBets |-> bets[b].status]
            /\ games_to_track' = GamesOf(InOrder(BetOrder, ActiveGameBets))
            /\ pc' = "game"
            /\ tracking_summary' = NoSummary
            /\ exit_code' = -1
    /\ UNCHANGED <<bets, games, player_game_stats, bet_tracking, message_log,
                   bets_todo, game_update, failures, skipped_games, fn>>

\* get_active_game_bets raises: caught by the outer handler, the run returns
StartRunFail ==
    /\ pc = "idle"
    /\ Raises
    /\ Returns(Failed(NoSummary))
    /\ UNCHANGED <<bets, games, player_game_stats, bet_tracking, message_log, pc,
                   active_bets, games_to_track, bets_todo, game_update,
                   skipped_games, fn>>

\* db.test_connection() of the script fails: the script exits before any run
ConnectionFailed ==
    /\ pc = "idle"
    /\ tracking_summary' = NoSummary
    /\ exit_code' = 1
    /\ UNCHANGED <<bets, games, player_game_stats, bet_tracking, message_log, pc,
                   active_bets, games_to_track, bets_todo, game_update, failures,
                   skipped_games, fn>>

\* the loop over the games left behind: on to the sweep
AfterGameAbort(rest) == "sweep"

\* what follows the current game: the next game, or the sweep
AfterGame(rest) == IF rest = <<>> THEN "sweep" ELSE "game"

\* lines of a feed for the subjects of the bets of game g: a value, or no line (-1).
\* Only a bet with a stat column has a subject with a line.
FeedLines(g) ==
    {l \in [BetIds -> (0..MaxStat) \cup {-1}] :
        \A b \in BetIds :
            (bets[b].game # g \/ bets[b].bet_type \notin StatMapping) => l[b] = -1}

\* runs of a team in a feed of game g; 0 when no bet of the game reads the scores
FeedScores(g) ==
    IF \E b \in BetIds : bets[b].game = g /\ bets[b].bet_type \in Moneyline \cup {"total"}
    THEN 0..MaxScore ELSE {0}

\* currentInning of the linescore of a feed: absent (1) before the game, the
\* first or the ninth during it, the ninth after it
FeedInnings(status) ==
    IF status.abstractGameState = "Preview" THEN {1}
    ELSE IF status.abstractGameState = "Live" THEN {1, 9}
    ELSE {9}

\* the games row as update_game_stats writes it, and the stat lines as
\* update_player_stats upserts them
GameRow(row, status, inning, home, away) ==
    [row EXCEPT !.status = status, !.inning = inning,
                !.home_score = home, !.away_score = away]
StatRows(lines) ==
    [b \in BetIds |->
        IF lines[b] = -1 THEN player_game_stats[b]
        ELSE [exists |-> TRUE, value |-> lines[b]]]

\* update_game_stats returns {} (no feed, or an exception it catches): the game
\* is skipped
UpdateGameEmpty ==
    /\ pc = "game"
    /\ games_to_track' = Tail(games_to_track)
    /\ pc' = AfterGame(Tail(games_to_track))
    /\ skipped_games' = skipped_games \cup {Head(games_to_track)}
    /\ UNCHANGED <<bets, games, player_game_stats, bet_tracking, message_log,
                   active_bets, bets_todo, game_update, failures,
                   tracking_summary, exit_code, fn>>

\* the feed request or the UPDATE of update_game_stats raises: the function
\* catches it and returns {}, the game is skipped
UpdateGameRaises ==
    /\ pc = "game"
    /\ Raises
    /\ games_to_track' = Tail(games_to_track)
    /\ pc' = AfterGame(Tail(games_to_track))
    /\ skipped_games' = skipped_games \cup {Head(games_to_track)}
    /\ UNCHANGED <<bets, games, player_game_stats, bet_tracking, message_log,
                   active_bets, bets_todo, game_update, tracking_summary, exit_code, fn>>

\* update_game_stats and update_player_stats succeed
UpdateGameOk ==
    /\ pc = "game"
    /\ LET g == Head(games_to_track) IN
       \E status \in FeedStatuses, home \in FeedScores(g), away \in FeedScores(g),
          lines \in FeedLines(g) :
          \E inning \in FeedInnings(status) :
            /\ games' = [games EXCEPT
                           ![g] = GameRow(@, status.detailedState, inning, home, away)]
            /\ player_game_stats' = StatRows(lines)
            /\ game_update' = [is_final |-> status.abstractGameState = "Final",
                               status |-> status.detailedState]
            /\ bets_todo' = InOrder(BetOrder, {b \in DOMAIN active_bets : bets[b].game = g})
    /\ games_to_track' = Tail(games_to_track)
    /\ pc' = "bets"
    /\ UNCHANGED <<bets, bet_tracking, message_log, active_bets, failures,
                   tracking_summary, exit_code, skipped_games, fn>>

\* update_game_stats succeeds and update_player_stats raises, after the upsert of
\* the lines written (the others keep their rows): the bets of the game are not
\* evaluated
UpdateGameStatsFail ==
    /\ pc = "game"
    /\ Raises
    /\ LET g == Head(games_to_track) IN
       \E status \in FeedStatuses, home \in FeedScores(g), away \in FeedScores(g),
          lines \in FeedLines(g) :
          \E inning \in FeedInnings(status) :
            /\ games' = [games EXCEPT
                           ![g] = GameRow(@, status.detailedState, inning, home, away)]
            /\ player_game_stats' = StatRows(lines)
    /\ games_to_track' = Tail(games_to_track)
    /\ pc' = AfterGame(Tail(games_to_track))
    /\ tracking_summary' = Failed(tracking_summary)
    /\ UNCHANGED <<bets, bet_tracking, message_log, active_bets, bets_todo,
                   game_update, exit_code, skipped_games, fn>>

\* the milestone call without the test of is_final
MilestoneDue(progress, is_final) == progress.milestone_hit # None

\* if progress['milestone_hit'] and not game_update.get('is_final')
MilestoneCall(progress, is_final) == progress.milestone_hit # None /\ ~is_final

\* the calls of queue_message the loop counts in messages_queued: for the
\* milestone, for the win, and for a change of the value of at least 1 of a bet
\* that is not hit
Calls(bet, progress, is_final) ==
    [milestone |-> IF MilestoneCall(progress, is_final) THEN 1 ELSE 0,
     won       |-> IF progress.is_hit /\ bet.status # "Won" THEN 1 ELSE 0,
     progress  |-> IF /\ ~progress.is_hit
                      /\ progress.current_value # progress.last_value
                      /\ progress.progress_percentage.num > 0
                   THEN 1 ELSE 0]

\* where the evaluation of one bet can raise
FailPoints == {"check_bet_progress", "queue_won", "update_tracking", "update_status"}

\* the progress of the bet to evaluate next, as check_bet_progress computes it
\* from the fetched row and the tables
FetchedRow(b) == [bets[b] EXCEPT !.status = active_bets[b]]
ProgressOf(b) ==
    CheckBetProgress(FetchedRow(b), bet_tracking[b], player_game_stats[b],
                     games[bets[b].game])

\* the body of the loop over the bets of a game, for the first bet left; failAt
\* names the call that raises, "none" when none does
Evaluate(failAt) ==
    /\ pc = "bets"
    /\ bets_todo # <<>>
    /\ LET b == Head(bets_todo)
           bet == FetchedRow(b)
           progress == ProgressOf(b)
           milestone == IF MilestoneCall(progress, game_update.is_final)
                        THEN QueueMessage(b, bet, progress, "milestone") ELSE {}
           won == IF progress.is_hit /\ bet.status # "Won"
                  THEN QueueMessage(b, bet, progress, "won") ELSE {}
           new_status == NewStatus(bet, progress, game_update.is_final)
           calls == Calls(bet, progress, game_update.is_final)
           counted == [tracking_summary EXCEPT
                         !.messages_queued = @ +
                            (IF failAt = "check_bet_progress" THEN 0
                             ELSE IF failAt = "queue_won" THEN calls.milestone
                             ELSE IF failAt = "none"
                                  THEN calls.milestone + calls.won + calls.progress
                             ELSE calls.milestone + calls.won),
                         !.bets_updated = @ + (IF failAt = "none" THEN 1 ELSE 0)]
       IN  /\ tracking_summary' = IF failAt = "none" THEN counted ELSE Failed(counted)
           /\ message_log' =
                IF failAt = "check_bet_progress" THEN message_log
                ELSE IF failAt = "queue_won" THEN Inserted(message_log, milestone)
                ELSE Inserted(Inserted(message_log, milestone), won)
           /\ bet_tracking' =
                IF failAt \in {"none", "update_status"}
                THEN [bet_tracking EXCEPT ![b] = UpdatedTracking(@, progress)]
                ELSE bet_tracking
           /\ bets' =
                IF failAt = "none" /\ new_status # None
                THEN [bets EXCEPT ![b].status = new_status]
                ELSE bets
    /\ bets_todo' = Tail(bets_todo)
    /\ pc' = IF Tail(bets_todo) = <<>> THEN AfterGame(games_to_track) ELSE "bets"
    /\ UNCHANGED <<games, player_game_stats, active_bets, games_to_track,
                   game_update, exit_code, skipped_games, fn>>

EvaluateOk == Evaluate("none") /\ UNCHANGED failures
EvaluateFail == Raises /\ \E failAt \in FailPoints : Evaluate(failAt)

\* a sweep of every Pending and Live bet, whatever the status of its game
SweptAll ==
    [b \in BetIds |->
        IF bets[b].status \in {"Pending", "Live"}
        THEN [bets[b] EXCEPT !.status = "Lost"]
        ELSE bets[b]]

\* the rows of bets after the sweep: Lost for the Pending and Live bets of
\* finished games
Swept ==
    [b \in BetIds |->
        IF /\ bets[b].status \in {"Pending", "Live"}
           /\ games[bets[b].game].status \in TerminalStatuses
           /\ bets[b].status # "Won"
        THEN [bets[b] EXCEPT !.status = "Lost"]
        ELSE bets[b]]

EndRun(summary) ==
    /\ pc' = "idle"
    /\ active_bets' = [b \in {} |-> None]
    /\ game_update' = NoUpdate
    /\ skipped_games' = {}
    /\ Returns(summary)
    /\ UNCHANGED <<games, player_game_stats, bet_tracking, message_log,
                   games_to_track, bets_todo, fn>>

\* the final UPDATE of the run
SweepOk ==
    /\ pc = "sweep"
    /\ bets' = Swept
    /\ UNCHANGED failures
    /\ EndRun(tracking_summary)

\* the final UPDATE raises: caught by the outer handler, the run returns
SweepFail ==
    /\ pc = "sweep"
    /\ Raises
    /\ UNCHANGED bets
    /\ EndRun(Failed(tracking_summary))

Next ==
    \/ StartRun
    \/ StartRunFail
    \/ ConnectionFailed
    \/ UpdateGameEmpty
    \/ UpdateGameRaises
    \/ UpdateGameOk
    \/ UpdateGameStatsFail
    \/ EvaluateOk
    \/ EvaluateFail
    \/ SweepOk
    \/ SweepFail

Spec == Init /\ [][Next]_vars

-----------------------------------------------------------------------------
(* Repeated runs: the scheduler starts the tracker again and again, a started    *)
(* run goes on, and a call that can succeed does not fail forever.               *)

Fairness ==
    /\ WF_vars(Next)
    /\ SF_vars(UpdateGameOk)
    /\ SF_vars(EvaluateOk)
    /\ SF_vars(SweepOk)

InitFair ==
    /\ bets = [b \in BetIds |->
                 IF b = "b1" THEN BetRow("hrs", 4, "over", SmallStake, None)
                 ELSE SpreadRow]
    /\ InitTables
    /\ fn = NoCall

FairSpec == InitFair /\ [][Next]_vars /\ Fairness

-----------------------------------------------------------------------------
(* Runs over two bets, on one game or on two: a bet on home runs over 2 and a    *)
(* spread                                                                        *)

InitGames ==
    /\ \E g \in GameIds :
          bets = [b \in BetIds |->
                    IF b = "b1" THEN BetRow("hrs", 4, "over", SmallStake, None)
                    ELSE [SpreadRow EXCEPT !.game = g]]
    /\ InitTables
    /\ fn = NoCall

SpecGames == InitGames /\ [][Next]_vars

-----------------------------------------------------------------------------
(* The milestone decision of check_bet_progress called alone, on arguments     *)
(* drawn from bounded sets                                                       *)

FnTypes == StatMapping \cup Moneyline \cup {"spread", "total"}
Innings == {1, 7, 9}

InitFn ==
    /\ bets = [b \in BetIds |-> SpreadRow]
    /\ InitTables
    /\ \E type \in FnTypes, t2 \in 1..MaxTarget2, prev \in 0..MaxValue,
          cur \in 0..MaxValue, alerts \in 0..MaxAlerts, inning \in Innings :
          fn = [NoCall EXCEPT !.bet_type = type, !.target2 = t2, !.prev = prev,
                              !.cur = cur, !.alerts = alerts, !.inning = inning]

\* the decision, and the number the text of queue_message gives for it
Decide ==
    /\ ~fn.done
    /\ LET m == MilestoneDecision(fn.bet_type, fn.target2, fn.prev, fn.cur, fn.alerts)
       IN  fn' = [fn EXCEPT !.done = TRUE, !.milestone_hit = m.milestone_hit,
                            !.milestone_type = m.milestone_type,
                            !.remaining = Remaining(m.milestone_type, fn.target2, fn.cur)]
    /\ UNCHANGED <<bets, games, player_game_stats, bet_tracking, message_log, pc,
                   active_bets, games_to_track, bets_todo, game_update, failures,
                   tracking_summary, exit_code, skipped_games>>

NextFn == Decide

SpecFn == InitFn /\ [][NextFn]_vars

-----------------------------------------------------------------------------
(* The hit decision of check_bet_progress called alone                          *)

\* operators as the bets table can hold them: any spelling, an unknown word, the
\* empty string, NULL
Operators == {"over", "Over", "OVER", "under", "Under", "exactly", "EXACTLY",
              "push", "", None}

\* target_value is NULL, or a number of half units from 0 on
InitHit ==
    /\ bets = [b \in BetIds |-> SpreadRow]
    /\ InitTables
    /\ \E type \in FnTypes, operator \in Operators, target_null \in BOOLEAN,
          t2 \in 0..MaxTarget2, cur \in 0..MaxValue :
          /\ target_null => t2 = 0
          /\ fn = [done |-> FALSE, bet_type |-> type, operator |-> operator,
                   target_null |-> target_null, target2 |-> t2, cur |-> cur,
                   target_value |-> 0, is_hit |-> FALSE]

DecideHit ==
    /\ ~fn.done
    /\ LET target == TargetOrOne(fn.target_null, fn.target2)
       IN  fn' = [fn EXCEPT !.done = TRUE, !.target_value = target,
                            !.is_hit = IsHit(fn.operator, fn.bet_type, fn.cur, target)]
    /\ UNCHANGED <<bets, games, player_game_stats, bet_tracking, message_log, pc,
                   active_bets, games_to_track, bets_todo, game_update, failures,
                   tracking_summary, exit_code, skipped_games>>

NextHit == DecideHit

SpecHit == InitHit /\ [][NextHit]_vars

-----------------------------------------------------------------------------
(* The total bases of a batting line: the upsert of update_player_stats and the *)
(* value check_bet_progress computes from the stored row                        *)

\* the columns of player_game_stats the upsert writes from a batting line
BattingRow(batting) ==
    [hits      |-> batting.hits,
     singles   |-> batting.hits - batting.doubles - batting.triples - batting.homeRuns,
     doubles   |-> batting.doubles,
     triples   |-> batting.triples,
     home_runs |-> batting.homeRuns]

\* total bases with the hits column in the place of the singles
TotalBasesFromHits(row) ==
    row.hits * 1 + row.doubles * 2 + row.triples * 3 + row.home_runs * 4

\* total_bases_calculated
TotalBasesCalculated(row) ==
    row.singles * 1 + row.doubles * 2 + row.triples * 3 + row.home_runs * 4

InitBases ==
    /\ bets = [b \in BetIds |-> SpreadRow]
    /\ InitTables
    /\ \E hits \in 0..MaxHits, doubles \in 0..MaxExtraBases,
          triples \in 0..MaxExtraBases, homeRuns \in 0..MaxExtraBases :
          fn = [done |-> FALSE,
                batting |-> [hits |-> hits, doubles |-> doubles,
                             triples |-> triples, homeRuns |-> homeRuns],
                row |-> BattingRow([hits |-> 0, doubles |-> 0, triples |-> 0,
                                    homeRuns |-> 0]),
                current_value |-> 0]

\* the upsert of the line, then the value of a total bases bet on the player
DecideBases ==
    /\ ~fn.done
    /\ LET row == BattingRow(fn.batting)
       IN  fn' = [fn EXCEPT !.done = TRUE, !.row = row,
                            !.current_value = TotalBasesCalculated(row)]
    /\ UNCHANGED <<bets, games, player_game_stats, bet_tracking, message_log, pc,
                   active_bets, games_to_track, bets_todo, game_update, failures,
                   tracking_summary, exit_code, skipped_games>>

NextBases == DecideBases

SpecBases == InitBases /\ [][NextBases]_vars

-----------------------------------------------------------------------------
(* The progress percentage of check_bet_progress computed alone: targets from   *)
(* -MaxTarget2 / 2 to MaxTarget2 / 2 or missing, current values 0..MaxValue      *)

InitProgress ==
    /\ bets = [b \in BetIds |-> SpreadRow]
    /\ InitTables
    /\ \E target_null \in BOOLEAN, t2 \in (0 - MaxTarget2)..MaxTarget2, cur \in 0..MaxValue :
          fn = [done |-> FALSE, target_null |-> target_null, target2 |-> t2,
                cur |-> cur, target_value |-> 0,
                progress_percentage |-> [num |-> 0, den |-> 1]]

DecideProgress ==
    /\ ~fn.done
    /\ LET target == TargetOrOne(fn.target_null, fn.target2)
       IN  fn' = [fn EXCEPT !.done = TRUE, !.target_value = target,
                            !.progress_percentage = ProgressPercentage(fn.cur, target)]
    /\ UNCHANGED <<bets, games, player_game_stats, bet_tracking, message_log, pc,
                   active_bets, games_to_track, bets_todo, game_update, failures,
                   tracking_summary, exit_code, skipped_games>>

NextProgress == DecideProgress

SpecProgress == InitProgress /\ [][NextProgress]_vars

-----------------------------------------------------------------------------
(* Two tracker runs at once, the cron script and the menu of main.py, each      *)
(* evaluating the same bet once: a step is one evaluation up to its read of the *)
(* tracking row in update_bet_tracking, or its writes.  fn holds, per runner,   *)
(* the position, the progress it computed and the milestone_alerts it read.     *)

Runners == {"cron", "menu"}

NoProgress == [current_value |-> 0, milestone_hit |-> None, is_hit |-> FALSE]

\* home runs over 3 at the budget of two alerts, evaluated once at 0 in a game in
\* progress; the line of the subject reads 0..MaxStat
InitRunners ==
    /\ bets = [b \in BetIds |->
                 IF b = "b1"
                 THEN [BetRow("hrs", 6, "over", PremiumStake, None) EXCEPT !.status = "Live"]
                 ELSE SpreadRow]
    /\ games = [g \in GameIds |->
                 IF g = "g1" THEN [NewGame EXCEPT !.status = "In Progress", !.inning = 1]
                 ELSE NewGame]
    /\ \E n \in 0..MaxStat :
          player_game_stats =
              [b \in BetIds |-> IF b = "b1" THEN [exists |-> TRUE, value |-> n] ELSE NoStat]
    /\ bet_tracking = [b \in BetIds |->
                         IF b = "b1" THEN [NoTracking EXCEPT !.exists = TRUE] ELSE NoTracking]
    /\ message_log = [r \in {} |-> 0]
    /\ pc = "idle"
    /\ active_bets = [b \in {} |-> None]
    /\ games_to_track = <<>>
    /\ bets_todo = <<>>
    /\ game_update = NoUpdate
    /\ failures = 0
    /\ tracking_summary = NoSummary
    /\ exit_code = -1
    /\ skipped_games = {}
    /\ fn = [p \in Runners |->
               [pc |-> "check", progress |-> NoProgress, milestone_alerts |-> NoAlerts]]

\* update_player_stats of either run stores a later line of the subject
FeedAdvance ==
    /\ player_game_stats["b1"].value < MaxStat
    /\ \E p \in Runners : fn[p].pc # "done"
    /\ player_game_stats' = [player_game_stats EXCEPT !["b1"].value = @ + 1]
    /\ UNCHANGED <<bets, games, bet_tracking, message_log, pc, active_bets,
                   games_to_track, bets_todo, game_update, failures,
                   tracking_summary, exit_code, skipped_games, fn>>

\* check_bet_progress and the queue_message calls of runner p
Check(p) ==
    /\ fn[p].pc = "check"
    /\ LET b == "b1"
           progress == CheckBetProgress(bets[b], bet_tracking[b], player_game_stats[b],
                                        games[bets[b].game])
           milestone == IF progress.milestone_hit # None
                        THEN QueueMessage(b, bets[b], progress, "milestone") ELSE {}
           won == IF progress.is_hit /\ bets[b].status # "Won"
                  THEN QueueMessage(b, bets[b], progress, "won") ELSE {}
       IN  /\ message_log' = Inserted(Inserted(message_log, milestone), won)
           /\ fn' = [fn EXCEPT ![p].pc = "read",
                               ![p].progress = [current_value |-> progress.current_value,
                                                milestone_hit |-> progress.milestone_hit,
                                                is_hit |-> progress.is_hit]]
    /\ UNCHANGED <<bets, games, player_game_stats, bet_tracking, pc, active_bets,
                   games_to_track, bets_todo, game_update, failures,
                   tracking_summary, exit_code, skipped_games>>

\* update_bet_tracking of runner p up to its UPDATE: the SELECT of
\* milestone_alerts and the new milestone recorded in the dict read
Read(p) ==
    /\ fn[p].pc = "read"
    /\ LET row == bet_tracking["b1"]
       IN  fn' = [fn EXCEPT ![p].pc = "write",
                            ![p].milestone_alerts =
                                Recorded(IF row.exists THEN row.milestone_alerts ELSE NoAlerts,
                                         fn[p].progress)]
    /\ UNCHANGED <<bets, games, player_game_stats, bet_tracking, message_log, pc,
                   active_bets, games_to_track, bets_todo, game_update, failures,
                   tracking_summary, exit_code, skipped_games>>

\* the UPDATE (or INSERT) of the tracking row with the dict of runner p, and the
\* UPDATE of the status of the bet
Write(p) ==
    /\ fn[p].pc = "write"
    /\ LET new_status == NewStatus(bets["b1"], fn[p].progress, FALSE)
       IN  bets' = IF new_status # None
                   THEN [bets EXCEPT !["b1"].status = new_status] ELSE bets
    /\ bet_tracking' = [bet_tracking EXCEPT !["b1"] =
                            [exists |-> TRUE,
                             current_value |-> fn[p].progress.current_value,
                             milestone_alerts |-> fn[p].milestone_alerts]]
    /\ fn' = [fn EXCEPT ![p].pc = "done"]
    /\ UNCHANGED <<games, player_game_stats, message_log, pc, active_bets,
                   games_to_track, bets_todo, game_update, failures,
                   tracking_summary, exit_code, skipped_games>>

NextRunners ==
    \/ FeedAdvance
    \/ \E p \in Runners : Check(p)
    \/ \E p \in Runners : Read(p)
    \/ \E p \in Runners : Write(p)

SpecRunners == InitRunners /\ [][NextRunners]_vars

-----------------------------------------------------------------------------
(* The operations of the bet manager beside a tracker run: the menu cancels the  *)
(* active bets, the start of the menu completes the bets of past games.  A bet   *)
(* on home runs over 2 in a game of today, a spread in a game of a past day.     *)

\* UPDATE bets SET status = 'Cancelled' WHERE status IN ('Pending', 'Live')
Cancelled ==
    [b \in BetIds |->
        IF bets[b].status \in {"Pending", "Live"}
        THEN [bets[b] EXCEPT !.status = "Cancelled"]
        ELSE bets[b]]

\* UPDATE bets SET status = 'Completed' WHERE status IN ('Pending', 'Live') AND
\* game_id IN (games of a date before today)
CompletedOld ==
    [b \in BetIds |->
        IF /\ bets[b].status \in {"Pending", "Live"}
           /\ games[bets[b].game].game_date = "past"
        THEN [bets[b] EXCEPT !.status = "Completed"]
        ELSE bets[b]]

cancel_active_bets ==
    /\ bets' = Cancelled
    /\ UNCHANGED <<games, player_game_stats, bet_tracking, message_log, pc,
                   active_bets, games_to_track, bets_todo, game_update, failures,
                   tracking_summary, exit_code, skipped_games, fn>>

update_old_bet_status ==
    /\ bets' = CompletedOld
    /\ UNCHANGED <<games, player_game_stats, bet_tracking, message_log, pc,
                   active_bets, games_to_track, bets_todo, game_update, failures,
                   tracking_summary, exit_code, skipped_games, fn>>

InitOps ==
    /\ bets = [b \in BetIds |->
                 IF b = "b1" THEN BetRow("hrs", 4, "over", SmallStake, None)
                 ELSE [SpreadRow EXCEPT !.game = "g2"]]
    /\ games = [g \in GameIds |->
                 IF g = "g1" THEN NewGame ELSE [NewGame EXCEPT !.game_date = "past"]]
    /\ player_game_stats = [b \in BetIds |-> NoStat]
    /\ bet_tracking = [b \in BetIds |-> NoTracking]
    /\ message_log = [r \in {} |-> 0]
    /\ pc = "idle"
    /\ active_bets = [b \in {} |-> None]
    /\ games_to_track = <<>>
    /\ bets_todo = <<>>
    /\ game_update = NoUpdate
    /\ failures = 0
    /\ tracking_summary = NoSummary
    /\ exit_code = -1
    /\ skipped_games = {}
    /\ fn = NoCall

NextOps ==
    \/ Next
    \/ cancel_active_bets
    \/ update_old_bet_status

SpecOps == InitOps /\ [][NextOps]_vars

-----------------------------------------------------------------------------
(* The notification queue: the schedulers and the tracker insert records, the    *)
(* message processor selects and retires them.  fn holds the clock (now, in      *)
(* units of ten minutes), the game times and the rows of message_log in the      *)
(* order of created_at.  Both bets are Pending, in games that are Scheduled.     *)

\* Config.PRE_GAME_ALERTS = [120, 30, 10] minutes, in units of ten minutes
PRE_GAME_ALERTS == <<12, 3, 1>>

\* a row of message_log as the INSERT statements write it; bet_id and game_id
\* are None (NULL) when the statement names no such column
Msg(type, bet_id, game_id, community, priority, at) ==
    [message_type |-> type, bet_id |-> bet_id, game_id |-> game_id,
     community_name |-> community, priority_level |-> priority,
     scheduled_send_time |-> at, delivery_status |-> "pending"]

\* the bets schedule_todays_pregame_alerts selects, in the order of the fetch
TodaysBets ==
    InOrder(BetOrder,
            {b \in BetIds : /\ bets[b].status = "Pending"
                            /\ games[bets[b].game].game_date = "today"
                            /\ games[bets[b].game].status \in {"Scheduled", "Pre-Game"}})

\* the keys (game_id, community) of game_community_bets, in order of first appearance
RECURSIVE Groups(_)
Groups(order) ==
    IF order = <<>> THEN <<>>
    ELSE LET key == <<bets[Head(order)].game, bets[Head(order)].community_name>>
         IN  <<key>> \o SelectSeq(Groups(Tail(order)), LAMBDA k : k # key)

\* the row of the alert of group key, minutes_before the game
Alert(key, minutes_before, game_time) ==
    Msg("pregame", None, key[1], key[2], 2, game_time[key[1]] - minutes_before)

\* the alerts of one group added to the queue without the check of the
\* records already there
RECURSIVE GroupAlertsUnchecked(_, _, _, _, _)
GroupAlertsUnchecked(queue, key, alerts, game_time, now) ==
    IF alerts = <<>> THEN queue
    ELSE LET row == Alert(key, Head(alerts), game_time)
         IN  GroupAlertsUnchecked(
                 IF row.scheduled_send_time > now THEN Append(queue, row) ELSE queue,
                 key, Tail(alerts), game_time, now)

\* the loop over the alert times of one group: an alert whose time has not
\* passed and that has no record yet (same game, community and time, whatever
\* its delivery status) is inserted
RECURSIVE GroupAlerts(_, _, _, _, _)
GroupAlerts(queue, key, alerts, game_time, now) ==
    IF alerts = <<>> THEN queue
    ELSE LET row == Alert(key, Head(alerts), game_time)
             existing == {i \in 1..Len(queue) :
                             /\ queue[i].message_type = "pregame"
                             /\ queue[i].game_id = row.game_id
                             /\ queue[i].community_name = row.community_name
                             /\ queue[i].scheduled_send_time = row.scheduled_send_time}
         IN  GroupAlerts(
                 IF row.scheduled_send_time > now /\ existing = {}
                 THEN Append(queue, row) ELSE queue,
                 key, Tail(alerts), game_time, now)

\* message_log after the loop over the groups
RECURSIVE Scheduled(_, _, _, _)
Scheduled(queue, keys, game_time, now) ==
    IF keys = <<>> THEN queue
    ELSE Scheduled(GroupAlerts(queue, Head(keys), PRE_GAME_ALERTS, game_time, now),
                   Tail(keys), game_time, now)

schedule_todays_pregame_alerts ==
    /\ fn' = [fn EXCEPT !.queue = Scheduled(@, Groups(TodaysBets), fn.game_time, fn.now)]
    /\ UNCHANGED <<bets, games, player_game_stats, bet_tracking, message_log, pc,
                   active_bets, games_to_track, bets_todo, game_update, failures,
                   tracking_summary, exit_code, skipped_games>>

\* the records of the other writers: queue_message of the tracker (milestone
\* and won, for a bet, due at once), trigger_streak_notifications (due at once)
\* and the marketing scheduler (due at send_time), the last two without bet_id
\* and game_id
OtherMessage(type, now, send_time) ==
    CASE type = "milestone" -> Msg(type, "b1", bets["b1"].game, bets["b1"].community_name, 1, now)
      [] type = "won"       -> Msg(type, "b1", bets["b1"].game, bets["b1"].community_name, 2, now)
      [] type = "streak"    -> Msg(type, None, None, "StatEdge", 3, now)
      [] type = "marketing" -> Msg(type, None, None, "StatEdge", 1, send_time)

InsertMessage ==
    /\ Cardinality({i \in 1..Len(fn.queue) : fn.queue[i].message_type # "pregame"})
          < MaxMessages
    /\ \E type \in {"milestone", "won", "streak", "marketing"},
          send_time \in fn.now..MaxClock :
          fn' = [fn EXCEPT !.queue = Append(@, OtherMessage(type, fn.now, send_time))]
    /\ UNCHANGED <<bets, games, player_game_stats, bet_tracking, message_log, pc,
                   active_bets, games_to_track, bets_todo, game_update, failures,
                   tracking_summary, exit_code, skipped_games>>

\* ten minutes pass
Tick ==
    /\ fn.now < MaxClock
    /\ fn' = [fn EXCEPT !.now = @ + 1]
    /\ UNCHANGED <<bets, games, player_game_stats, bet_tracking, message_log, pc,
                   active_bets, games_to_track, bets_todo, game_update, failures,
                   tracking_summary, exit_code, skipped_games>>

\* the rows the SELECT of process_message_queue matches: pending, due, and
\* joined to a row of bets (JOIN bets b ON m.bet_id = b.bet_id)
Pending(queue, now) ==
    {i \in 1..Len(queue) : /\ queue[i].delivery_status = "pending"
                           /\ queue[i].scheduled_send_time <= now
                           /\ queue[i].bet_id \in BetIds}

\* ORDER BY priority_level DESC, created_at ASC LIMIT n
RECURSIVE Batch(_, _, _)
Batch(queue, rows, n) ==
    IF rows = {} \/ n = 0 THEN {}
    ELSE LET first == CHOOSE i \in rows :
                        \A j \in rows :
                            \/ queue[i].priority_level > queue[j].priority_level
                            \/ /\ queue[i].priority_level = queue[j].priority_level
                               /\ i <= j
         IN  {first} \cup Batch(queue, rows \ {first}, n - 1)

\* one run of the message processor: every selected record is posted and
\* marked sent, or marked failed when its text or its post raises
process_message_queue ==
    /\ LET messages == Batch(fn.queue, Pending(fn.queue, fn.now), MaxBatch)
       IN  /\ messages # {}
           /\ \E failed \in SUBSET messages :
                 fn' = [fn EXCEPT !.queue =
                          [i \in 1..Len(@) |->
                             IF i \in failed THEN [@[i] EXCEPT !.delivery_status = "failed"]
                             ELSE IF i \in messages
                                  THEN [@[i] EXCEPT !.delivery_status = "sent"]
                                  ELSE @[i]]]
    /\ UNCHANGED <<bets, games, player_game_stats, bet_tracking, message_log, pc,
                   active_bets, games_to_track, bets_todo, game_update, failures,
                   tracking_summary, exit_code, skipped_games>>

\* a spread and a bet on home runs over 2, in two games: first pitch of g1 in
\* 130 minutes, of g2 in 50 minutes
InitQueue ==
    /\ bets = [b \in BetIds |->
                 IF b = "b1" THEN BetRow("hrs", 4, "over", SmallStake, None)
                 ELSE [SpreadRow EXCEPT !.game = "g2"]]
    /\ InitTables
    /\ fn = [now |-> 0, game_time |-> [g \in GameIds |-> IF g = "g1" THEN 13 ELSE 5],
             queue |-> <<>>]

NextQueue ==
    \/ schedule_todays_pregame_alerts
    \/ InsertMessage
    \/ Tick
    \/ process_message_queue

\* the processor runs again and again
SpecQueue == InitQueue /\ [][NextQueue]_vars /\ WF_vars(process_message_queue)

-----------------------------------------------------------------------------
(* Properties *)

\* rows of message_log
CountIn(log, r) == IF r \in DOMAIN log THEN log[r] ELSE 0
WonRow(b) == [bet_id |-> b, message_type |-> "won",
              milestone_type |-> None, milestone_key |-> None]
MilestoneRow(b, type, key) ==
    [bet_id |-> b, message_type |-> "milestone",
     milestone_type |-> type, milestone_key |-> key]
MilestoneRows(log, b) ==
    {r \in DOMAIN log : r.bet_id = b /\ r.message_type = "milestone"}

RECURSIVE Total(_, _)
Total(log, rows) ==
    IF rows = {} THEN 0
    ELSE LET r == CHOOSE x \in rows : TRUE
         IN  log[r] + Total(log, rows \ {r})
MilestoneCount(log, b) == Total(log, MilestoneRows(log, b))

Finished(g) == games[g].status \in TerminalStatuses
Hits(b, value) == IsHit(bets[b].operator, bets[b].bet_type, value, bets[b].target2)

(* C1: once the status of a bet is Won or Lost, no step of a later run changes  *)
(* it, whatever the feed reports (a corrected, lower stat included).            *)
C1_TerminalStatusKept ==
    [][\A b \in BetIds :
         bets[b].status \in {"Won", "Lost"} => bets'[b].status = bets[b].status]_vars

\* a bet is Won on a value that hit, the stat line was corrected afterwards to a
\* value that does not hit, and the run that stored the correction has ended
C1_Witness ==
    /\ pc = "idle"
    /\ bets["b1"].status = "Won"
    /\ bets["b1"].operator = "over"
    /\ Hits("b1", bet_tracking["b1"].current_value)
    /\ player_game_stats["b1"].exists
    /\ ~Hits("b1", player_game_stats["b1"].value)

(* C2: a Pending or Live bet whose game has reached a terminal status is        *)
(* eventually Won or Lost, under repeated runs.                                 *)
C2_EventuallyTerminal ==
    \A b \in BetIds :
        (bets[b].status \in {"Pending", "Live"} /\ Finished(bets[b].game))
            ~> (bets[b].status \in {"Won", "Lost"})

\* the step that evaluates bet b and in which no call raises
Evaluated(b) ==
    /\ pc = "bets" /\ bets_todo # <<>> /\ Head(bets_todo) = b
    /\ bets_todo' = Tail(bets_todo)
    /\ failures = 0 /\ failures' = 0

\* the stat line of the subject of bet b reads n
Observes(b, n) == player_game_stats[b].exists /\ player_game_stats[b].value = n

\* a HomeRuns bet with target 2 and operator over
HomeRunsOverTwo(b) ==
    bets[b].bet_type = "hrs" /\ bets[b].target2 = 4 /\ bets[b].operator = "over"

\* the four runs of the trace, each as the step that evaluates the bet in the
\* state the runs before it leave; first_status is the status after the first run
HomeRunTrace(b, first_status) ==
    /\ ( /\ Evaluated(b) /\ ~game_update.is_final
         /\ bets[b].status = "Pending" /\ ~bet_tracking[b].exists
         /\ Observes(b, 0) )
       => /\ MilestoneCount(message_log', b) = 0
          /\ bets'[b].status = first_status
    /\ ( /\ Evaluated(b) /\ ~game_update.is_final
         /\ bet_tracking[b].exists /\ bet_tracking[b].current_value = 0
         /\ DOMAIN bet_tracking[b].milestone_alerts = {}
         /\ MilestoneCount(message_log, b) = 0
         /\ Observes(b, 1) )
       => /\ MilestoneCount(message_log', b) = 1
          /\ CountIn(message_log', MilestoneRow(b, "first_progress", "1")) = 1
          /\ bets'[b].status = "Live"
    /\ ( /\ Evaluated(b)
         /\ bets[b].status = "Live"
         /\ bet_tracking[b].exists /\ bet_tracking[b].current_value = 1
         /\ MilestoneCount(message_log, b) = 1
         /\ CountIn(message_log, WonRow(b)) = 0
         /\ Observes(b, 3) )
       => /\ CountIn(message_log', WonRow(b)) = 1
          /\ MilestoneCount(message_log', b) = 1
          /\ bets'[b].status = "Won"
    /\ ( bets[b].status = "Won" /\ player_game_stats'[b] = [exists |-> TRUE, value |-> 2] )
       => bets'[b].status = "Won"

C4_OneWonRecord ==
    failures = 0 =>
        \A b \in BetIds :
            CountIn(message_log, WonRow(b)) = IF bets[b].status = "Won" THEN 1 ELSE 0

\* a bet with a budget of one alert won after its halfway milestone: the ledger
\* holds the key of the halfway value and the key of the winning value
C4_Witness ==
    /\ failures = 0
    /\ bets["b1"].status = "Won"
    /\ MaxUpdates(bets["b1"]) = 1
    /\ DOMAIN bet_tracking["b1"].milestone_alerts = {"2.0", "3.0"}
    /\ CountIn(message_log, MilestoneRow("b1", "halfway", "2.0")) = 1
    /\ CountIn(message_log, WonRow("b1")) = 1

\* the milestone rows of bet b that a step adds to message_log
Emitted(b) ==
    {r \in MilestoneRows(message_log', b) :
        CountIn(message_log', r) > CountIn(message_log, r)}

(* C5: once a milestone key is recorded in the ledger of a bet, no later        *)
(* evaluation of the bet emits a notification for that key, whatever the        *)
(* sequence of values (a stat that falls below a threshold and crosses it again *)
(* included).  Stated for the runs in which no call fails.                      *)
C5_KeyFiresOnce ==
    [][\A b \in BetIds :
         failures' = 0 =>
            \A r \in Emitted(b) : r.milestone_key \notin DOMAIN bet_tracking[b].milestone_alerts]_vars

(* C6: the milestone records of a bet number at most 2 when its stake is at     *)
(* least 3 units or its community is the Premium one, and at most 1 otherwise;  *)
(* won records are not counted.  Stated for the runs in which no call fails.    *)
C6_AlertBudget ==
    failures = 0 =>
        \A b \in BetIds : MilestoneCount(message_log, b) <= MaxUpdates(bets[b])

\* bet kinds of the counting stats: HomeRuns, Hits, Strikeouts, RBIs,
\* StolenBases, Runs, Walks
CountingStats ==
    {"hrs", "home runs", "hits", "h", "ks", "strikeouts", "rbis", "rbi",
     "sb", "stolen bases", "runs", "walks", "bb"}

(* C7: for a counting-stat bet with target at most 2.5, the evaluation in which *)
(* the value goes from 0 to 1 fires exactly one first-progress milestone, and   *)
(* the next evaluation with the value unchanged fires none.                     *)
C7_FirstProgressOnce ==
    [][\A b \in BetIds :
         ( /\ bets[b].bet_type \in CountingStats /\ bets[b].target2 <= 5
           /\ Evaluated(b) /\ ~game_update.is_final )
         => /\ ( /\ PrevValue(bet_tracking[b]) = 0
                 /\ AlertsSent(bet_tracking[b]) = 0
                 /\ MilestoneCount(message_log, b) = 0
                 /\ Observes(b, 1) )
               => /\ MilestoneCount(message_log', b) = 1
                  /\ CountIn(message_log', MilestoneRow(b, "first_progress", "1")) = 1
            /\ ( /\ bet_tracking[b].exists
                 /\ bet_tracking[b].current_value = 1
                 /\ Observes(b, 1) )
               => Emitted(b) = {}]_vars

\* 100 * value against pct percent of the target (target2 is twice the target)
AtLeast(value, pct, target2) == 200 * value >= pct * target2

(* C8: for HomeRuns, Hits, RBIs, StolenBases, TotalBases and Strikeouts bets    *)
(* with a target above 2.5 the decision is halfway, with the current value as   *)
(* milestone value, when current >= 50% of the target, previous < 50% and no    *)
(* alert was sent; otherwise near_complete, with the current value, when        *)
(* current >= 80%, previous < 80% and fewer than 2 alerts were sent; otherwise  *)
(* none.                                                                        *)
C8_HalfwayThenNearComplete ==
    ( /\ fn.done
      /\ fn.bet_type \in {"hrs", "home runs", "hits", "h", "rbis", "rbi", "sb",
                          "stolen bases", "total bases", "bases", "ks", "strikeouts"}
      /\ fn.target2 > 5 )
    => IF /\ AtLeast(fn.cur, 50, fn.target2) /\ ~AtLeast(fn.prev, 50, fn.target2)
          /\ fn.alerts = 0
       THEN fn.milestone_type = "halfway" /\ fn.milestone_hit = StrFloat(fn.cur)
       ELSE IF /\ AtLeast(fn.cur, 80, fn.target2) /\ ~AtLeast(fn.prev, 80, fn.target2)
               /\ fn.alerts < 2
       THEN fn.milestone_type = "near_complete" /\ fn.milestone_hit = StrFloat(fn.cur)
       ELSE fn.milestone_type = None /\ fn.milestone_hit = None

\* a call that decides near_complete with no alert sent yet: the halfway mark
\* was passed before
C8_Witness ==
    /\ fn.done
    /\ fn.bet_type = "hits"
    /\ fn.target2 = 10 /\ fn.prev = 3 /\ fn.cur = 4 /\ fn.alerts = 0
    /\ fn.milestone_type = "near_complete"
    /\ fn.milestone_hit = "4.0"

(* C9: for home runs, hits, RBIs and stolen bases bets, when the first-progress *)
(* condition does not apply, the current value is below the target, the inning  *)
(* is 7 or later, fewer than 2 alerts were sent and current = target - 1, the   *)
(* milestone logic of check_bet_progress yields a last_chance milestone.        *)
C9_LastChance ==
    ( /\ fn.done
      /\ fn.bet_type \in {"hrs", "home runs", "hits", "h", "rbis", "rbi", "sb",
                          "stolen bases"}
      /\ ~(fn.target2 > 2 /\ fn.prev = 0 /\ fn.cur >= 1 /\ fn.alerts = 0)
      /\ fn.target2 > 2 * fn.cur
      /\ fn.inning >= 7
      /\ fn.alerts < 2
      /\ 2 * fn.cur = fn.target2 - 2 )
    => fn.milestone_type = "last_chance"

\* the team of a moneyline bet has the higher score in the stored games row
TeamAhead(b) ==
    LET game == games[bets[b].game]
    IN  IF bets[b].team = "home" THEN game.home_score > game.away_score
        ELSE game.away_score > game.home_score

Evaluating(b) == pc = "bets" /\ bets_todo # <<>> /\ Head(bets_todo) = b

\* the stored status of the game: in progress
InProgress(g) == games[g].status = "In Progress"

(* C11: for a moneyline bet the current value is 1 when the team of the bet     *)
(* leads in a game in progress or has won a finished game, and 0 otherwise.     *)
C11_MoneylineValue ==
    \A b \in BetIds :
        (bets[b].bet_type \in Moneyline /\ Evaluating(b)) =>
            ProgressOf(b).current_value =
                IF (InProgress(bets[b].game) \/ Finished(bets[b].game)) /\ TeamAhead(b)
                THEN 1 ELSE 0

(* C12: for a moneyline bet with no alert sent, the evaluation in which the     *)
(* team of the bet goes from not leading to leading in a game in progress emits *)
(* exactly one lead-change notification, and a later evaluation emits none.     *)
C12_LeadChangeOnce ==
    [][\A b \in BetIds :
         (bets[b].bet_type \in Moneyline /\ Evaluated(b) /\ ~game_update.is_final) =>
            /\ ( /\ InProgress(bets[b].game) /\ TeamAhead(b)
                 /\ PrevValue(bet_tracking[b]) = 0
                 /\ AlertsSent(bet_tracking[b]) = 0 )
               => /\ Emitted(b) = {MilestoneRow(b, "lead_change", "took_lead")}
                  /\ CountIn(message_log', MilestoneRow(b, "lead_change", "took_lead")) = 1
            /\ AlertsSent(bet_tracking[b]) > 0 => Emitted(b) = {}]_vars

\* the scoring margin of the team of a bet: its score minus the opponent's
Margin(b) ==
    LET game == games[bets[b].game]
    IN  IF bets[b].team = "home" THEN game.home_score - game.away_score
        ELSE game.away_score - game.home_score

(* C13: for a spread bet the current value is the scoring margin of the team of *)
(* the bet, and the bet is hit when the operator holds of that value against    *)
(* the target.                                                                  *)
C13_SpreadValue ==
    \A b \in BetIds :
        (bets[b].bet_type = "spread" /\ Evaluating(b)) =>
            /\ ProgressOf(b).current_value = Margin(b)
            /\ ProgressOf(b).is_hit =
                  IsHit(bets[b].operator, "spread", Margin(b), bets[b].target2)

\* the runs of both teams in the stored games row
RunsScored(g) == games[g].home_score + games[g].away_score

C16_TotalBases ==
    fn.done =>
        LET line == fn.batting
            singles == line.hits - line.doubles - line.triples - line.homeRuns
        IN  /\ fn.row.singles = singles
            /\ fn.current_value =
                  1 * singles + 2 * line.doubles + 3 * line.triples + 4 * line.homeRuns

\* 4 hits of which a double and a home run: 2 singles, 8 total bases
C16_Witness ==
    /\ fn.done
    /\ fn.batting = [hits |-> 4, doubles |-> 1, triples |-> 0, homeRuns |-> 1]
    /\ fn.row.singles = 2
    /\ fn.current_value = 8

(* C17: in every milestone notification that says how many more are needed,    *)
(* the number is max(0, needed - current), where needed is the target rounded   *)
(* up when it is fractional and the target + 1 when it is whole.                *)
C17_RemainingToHit ==
    (fn.done /\ fn.milestone_type \in RemainingTypes) =>
        LET needed == IF fn.target2 % 2 = 0 THEN fn.target2 \div 2 + 1
                      ELSE (fn.target2 + 1) \div 2
        IN  fn.remaining = IF needed > fn.cur THEN needed - fn.cur ELSE 0

\* an evaluation of the first bet left that reaches the write of its tracking row
WritesTracking == Evaluate("none") \/ Evaluate("update_status")

(* C18: recording a milestone is an upsert by key: a key already recorded for   *)
(* the bet leaves the number of records unchanged, the record of the key        *)
(* carrying the value of the latest write and the other records kept; a new     *)
(* key adds exactly one record.                                                  *)
C18_UpsertByKey ==
    [][WritesTracking =>
        LET b == Head(bets_todo)
            progress == ProgressOf(b)
            key == progress.milestone_hit
            old == bet_tracking[b].milestone_alerts
            new == bet_tracking'[b].milestone_alerts
        IN  key # None =>
              /\ new[key] = [value |-> progress.current_value]
              /\ \A k \in DOMAIN old \ {key} : k \in DOMAIN new /\ new[k] = old[k]
              /\ key \in DOMAIN old =>
                    Cardinality(DOMAIN new) = Cardinality(DOMAIN old)
              /\ key \notin DOMAIN old =>
                    Cardinality(DOMAIN new) = Cardinality(DOMAIN old) + 1]_vars

\* a key recorded twice (two different notifications carry it, no evaluation
\* failed): one record
C18_Witness ==
    /\ failures = 0
    /\ \E b \in BetIds : \E r1, r2 \in DOMAIN message_log :
          /\ r1 # r2
          /\ r1.bet_id = b /\ r2.bet_id = b
          /\ r1.message_type = "milestone" /\ r2.message_type = "milestone"
          /\ r1.milestone_key = r2.milestone_key
          /\ r1.milestone_key \in DOMAIN bet_tracking[b].milestone_alerts
          /\ Cardinality(DOMAIN bet_tracking[b].milestone_alerts) = 1
          /\ bet_tracking[b].milestone_alerts[r1.milestone_key].value =
                bet_tracking[b].current_value

(* C19: an evaluation that updates the ledger and the bet sets the status to Won *)
(* when the bet is hit, to Lost when the game is final and the bet is not hit,  *)
(* to Live when the bet is Pending and the game is observed in progress, and    *)
(* leaves it unchanged in every other case.                                      *)
C19_StatusAdvance ==
    [][EvaluateOk =>
        LET b == Head(bets_todo)
            progress == ProgressOf(b)
        IN  bets'[b].status =
                IF progress.is_hit THEN "Won"
                ELSE IF game_update.is_final THEN "Lost"
                ELSE IF bets[b].status = "Pending" /\ InProgress(bets[b].game) THEN "Live"
                ELSE bets[b].status]_vars

\* the bets fetched for the game in the order of the fetch
FetchedBets(g) == InOrder(BetOrder, {b \in DOMAIN active_bets : bets[b].game = g})

\* where the run goes on with these bets and games left
GoesOn(bets_left, games_left) ==
    IF bets_left # <<>> THEN "bets" ELSE IF games_left # <<>> THEN "game" ELSE "sweep"

(* C20: an exception while a bet is evaluated leaves the other bets of the game *)
(* and all the games not yet visited to be processed next, and an exception     *)
(* while a game is updated leaves all the other games not yet visited; every    *)
(* game that delivers its data has all its fetched bets evaluated, one after    *)
(* the other.                                                                   *)
C20_SiblingsStillEvaluated ==
    [][/\ EvaluateFail =>
            /\ bets_todo' = Tail(bets_todo)
            /\ games_to_track' = games_to_track
            /\ active_bets' = active_bets
            /\ pc' = GoesOn(Tail(bets_todo), games_to_track)
       /\ UpdateGameStatsFail =>
            /\ games_to_track' = Tail(games_to_track)
            /\ active_bets' = active_bets
            /\ pc' = GoesOn(<<>>, Tail(games_to_track))
       /\ UpdateGameOk =>
            /\ bets_todo' = FetchedBets(Head(games_to_track))
            /\ bets_todo' # <<>>
       /\ (pc = "bets" /\ pc' # "bets") => Len(bets_todo) = 1
       /\ (pc = "game" /\ pc' = "sweep") => Len(games_to_track) = 1]_vars

\* the bets are on two games; a call raised for the first game or its bet, which
\* has no tracking row, and the bet of the second game was evaluated and is Live
C20_Witness ==
    /\ pc = "sweep"
    /\ failures = 1
    /\ bets["b1"].game = "g1" /\ bets["b2"].game = "g2"
    /\ ~bet_tracking["b1"].exists /\ bets["b1"].status = "Pending"
    /\ games["g1"].status = "In Progress"
    /\ bet_tracking["b2"].exists /\ bets["b2"].status = "Live"

\* a call raises in this step
Raised == failures' = failures + 1

(* C21: every exception raised while a game's feed is updated or a bet is       *)
(* evaluated adds one entry to the error list of the run's summary.             *)
C21_ErrorsRecorded ==
    [][(Raised /\ pc \in {"game", "bets"}) =>
          tracking_summary'.errors = tracking_summary.errors + 1]_vars

\* the run ends in this step
RunEnds == pc' = "idle" /\ (pc # "idle" \/ StartRun \/ StartRunFail)

(* C22: track_all_live_games never raises: a step in which a call raises either *)
(* leaves the run going or ends it with the summary returned, and every run     *)
(* that ends returns the summary with its counts and with one entry in the      *)
(* error list for the bet fetch or the sweep that raised.                       *)
C22_AlwaysReturnsSummary ==
    [][/\ (Raised /\ pc' = "idle") =>
            /\ tracking_summary'.returned
            /\ tracking_summary'.errors >= 1
       /\ RunEnds =>
            /\ tracking_summary'.returned
            /\ tracking_summary'.bets_updated =
                  IF pc = "idle" THEN 0 ELSE tracking_summary.bets_updated
            /\ tracking_summary'.messages_queued =
                  IF pc = "idle" THEN 0 ELSE tracking_summary.messages_queued
            /\ tracking_summary'.errors =
                  (IF pc = "idle" THEN 0 ELSE tracking_summary.errors)
                  + (IF Raised THEN 1 ELSE 0)
       /\ (pc' # "idle") => ~tracking_summary'.returned]_vars

\* a returned summary of a run in which one bet was updated, the evaluation of
\* the other raised and the sweep raised
C22_Witness ==
    /\ pc = "idle"
    /\ tracking_summary.returned
    /\ tracking_summary.bets_updated = 1
    /\ tracking_summary.errors = 2
    /\ failures = 2

\* the script has exited after a run that returned its summary
RunExited == exit_code # -1 /\ tracking_summary.returned

\* a run with no errors, or with errors and at least one updated bet, exits with 0
DegradedRunSucceeds ==
    (RunExited /\ (tracking_summary.errors = 0 \/ tracking_summary.bets_updated >= 1))
        => exit_code = 0

(* C23, as stated: the script exits with a failure signal only if the run       *)
(* updated zero bets and recorded at least one error; a run with errors and an  *)
(* updated bet, or without errors, exits successfully.                          *)
C23_FailureOnlyOnTotalFailure ==
    /\ exit_code = 1 =>
          /\ tracking_summary.returned
          /\ tracking_summary.bets_updated = 0
          /\ tracking_summary.errors >= 1
    /\ DegradedRunSucceeds

(* C23, amended: the script exits with a failure signal only if its database    *)
(* connection test failed before any run, or the run updated zero bets and      *)
(* recorded at least one error; a run with errors and an updated bet, or        *)
(* without errors, exits successfully.                                          *)
C23_FailureOnNoConnectionOrTotalFailure ==
    /\ exit_code = 1 =>
          \/ ~tracking_summary.returned
          \/ /\ tracking_summary.bets_updated = 0
             /\ tracking_summary.errors >= 1
    /\ (RunExited /\ tracking_summary.bets_updated = 0 /\ tracking_summary.errors >= 1)
          => exit_code = 1
    /\ DegradedRunSucceeds

\* a run with an error and an updated bet has exited with 0
C23_Witness ==
    /\ RunExited
    /\ tracking_summary.errors >= 1
    /\ tracking_summary.bets_updated >= 1
    /\ exit_code = 0

\* a bet the sweep is meant for: Pending or Live on a game whose stored status
\* is terminal
Unresolved(b) == bets[b].status \in {"Pending", "Live"} /\ Finished(bets[b].game)

(* C24: at the end of every run, and already of every run in which no call      *)
(* raised, no bet is left Pending or Live whose game's stored status is         *)
(* terminal.                                                                    *)
C24_NoUnresolvedAfterRun ==
    (pc = "idle" /\ tracking_summary.returned /\ tracking_summary.errors = 0) =>
        \A b \in BetIds : ~Unresolved(b)

\* the step in which the update of a game returns no data
Skips == UpdateGameEmpty \/ UpdateGameRaises

\* the notification records of bet b
RowsOf(log, b) == {r \in DOMAIN log : r.bet_id = b}

(* C25: when the update of a game returns no data the run skips the game: the   *)
(* step changes no bet, tracking row or notification and the run goes on with   *)
(* the games left; no later step of the run changes the status, the tracking    *)
(* row or the notifications of a bet of the skipped game; and at the end of the  *)
(* run these bets are still among those the next run fetches.                   *)
C25_SkippedGameUntouched ==
    [][/\ Skips =>
            /\ UNCHANGED <<bets, bet_tracking, message_log, games, player_game_stats>>
            /\ games_to_track' = Tail(games_to_track)
            /\ pc' = GoesOn(<<>>, Tail(games_to_track))
       /\ \A b \in BetIds :
            bets[b].game \in skipped_games =>
                /\ bets'[b] = bets[b]
                /\ bet_tracking'[b] = bet_tracking[b]
                /\ RowsOf(message_log', b) = RowsOf(message_log, b)
                /\ \A r \in RowsOf(message_log, b) : message_log'[r] = message_log[r]
                /\ b \in DOMAIN active_bets => b \in ActiveGameBets'
                /\ bets[b].game \notin {games_to_track'[i] : i \in 1..Len(games_to_track')}]_vars

\* the first game was skipped, the bet of the second game was evaluated and the
\* run is at its sweep: the bet of the first game is as it was fetched
C25_Witness ==
    /\ pc = "sweep"
    /\ skipped_games = {"g1"}
    /\ bets["b1"].game = "g1" /\ bets["b2"].game = "g2"
    /\ bets["b1"].status = "Live" /\ active_bets["b1"] = "Live"
    /\ bet_tracking["b1"].exists
    /\ tracking_summary.bets_updated = 1
    /\ games["g2"].status = "Final" /\ games["g1"].status = "In Progress"

(* C26: for every target and every current value the progress percentage of    *)
(* the result is at least 0 and at most 100; it is current / target * 100       *)
(* where that is at most 100 and the target is positive.                        *)
C26_ProgressInRange ==
    fn.done =>
        LET pct == fn.progress_percentage
        IN  /\ pct.den > 0
            /\ 0 <= pct.num
            /\ pct.num <= 100 * pct.den
            /\ (fn.target_value > 0 /\ 2 * fn.cur <= fn.target_value) =>
                  pct.num * fn.target_value = 200 * fn.cur * pct.den

\* a value above the target: 4 against 1.5 is capped at 100
C26_Witness ==
    /\ fn.done
    /\ ~fn.target_null /\ fn.target2 = 3 /\ fn.cur = 4
    /\ fn.progress_percentage = [num |-> 100, den |-> 1]

\* the subject of bet b has no stat line for the game of the bet
NoLine(b) == bets[b].bet_type \in StatMapping /\ ~player_game_stats[b].exists

(* C27: when the subject of a counting-stat or total-bases bet has no stat line *)
(* for the game, check_bet_progress gives the current value 0 and no milestone, *)
(* and the evaluation, in which nothing raises for the missing line, updates    *)
(* the bet: its tracking row holds the value 0 and the run counts it as         *)
(* updated.                                                                     *)
C27_MissingLineIsZero ==
    [][\A b \in BetIds :
         (NoLine(b) /\ Evaluating(b)) =>
            /\ ProgressOf(b).current_value = 0
            /\ ProgressOf(b).milestone_hit = None
            /\ EvaluateOk =>
                  /\ bet_tracking'[b].exists
                  /\ bet_tracking'[b].current_value = 0
                  /\ tracking_summary'.bets_updated = tracking_summary.bets_updated + 1
                  /\ tracking_summary'.errors = tracking_summary.errors
                  /\ bets'[b].status =
                        IF ProgressOf(b).is_hit THEN "Won"
                        ELSE IF game_update.is_final THEN "Lost" ELSE "Live"]_vars

\* a total-bases bet evaluated in a game in progress without a line of its
\* subject: tracked at 0 and Live
C27_Witness ==
    /\ bets["b1"].bet_type = "total bases"
    /\ NoLine("b1")
    /\ games["g1"].status = "In Progress"
    /\ bet_tracking["b1"].exists /\ bet_tracking["b1"].current_value = 0
    /\ bets["b1"].status = "Live"
    /\ tracking_summary.bets_updated >= 1
    /\ failures = 0

\* a notification record of bet b is inserted in this step
Emits(b) ==
    \E r \in RowsOf(message_log', b) : message_log'[r] > CountIn(message_log, r)

(* C28: in the evaluation of a bet the tracking row is written with the new     *)
(* value and the fired milestone before the notification record is inserted:    *)
(* whenever a step inserts a record for a bet, the tracking row of the bet      *)
(* holds the value and the milestone of that evaluation.                        *)
C28_LedgerBeforeNotification ==
    [][\A b \in BetIds :
         (Evaluating(b) /\ Emits(b)) =>
            LET progress == ProgressOf(b)
            IN  /\ bet_tracking'[b].exists
                /\ bet_tracking'[b].current_value = progress.current_value
                /\ progress.milestone_hit # None =>
                      progress.milestone_hit \in DOMAIN bet_tracking'[b].milestone_alerts]_vars

\* record r of bet b was inserted by an evaluation that did not get to write the
\* tracking row (for a milestone) or the status (for a win)
Partial(b, r) ==
    /\ r \in RowsOf(message_log, b)
    /\ r.message_type = "milestone" =>
          r.milestone_key \notin DOMAIN bet_tracking[b].milestone_alerts
    /\ r.message_type = "won" => bets[b].status # "Won"

(* C29: when a notification of a bet was recorded and the write of its tracking *)
(* row and status was not reached, the next evaluation of the bet does not      *)
(* record the notification of the same milestone or win a second time.          *)
C29_ReevaluationIdempotent ==
    [][\A b \in BetIds : \A r \in RowsOf(message_log, b) :
         (Evaluating(b) /\ Partial(b, r)) => message_log'[r] = message_log[r]]_vars

(* C30: when two runs evaluate the same bet with overlapping steps, the         *)
(* tracking row of the bet holds, once both have written, every milestone       *)
(* either run recorded.                                                         *)
C30_NoLostMilestone ==
    (\A p \in Runners : fn[p].pc = "done") =>
        \A p \in Runners :
            fn[p].progress.milestone_hit # None =>
                fn[p].progress.milestone_hit \in DOMAIN bet_tracking["b1"].milestone_alerts

\* a step changes the status of bet b
StatusChanges(b) == bets'[b].status # bets[b].status

\* the changes of status the life cycle of a bet allows
AllowedChanges ==
    {<<"Pending", "Live">>}
    \cup {<<from, to>> : from \in {"Pending", "Live"},
                         to \in {"Won", "Lost", "Cancelled", "Completed"}}

(* C31: every change of the status of a bet, by the ledger update, the sweep,   *)
(* cancel_active_bets or update_old_bet_status, is Pending to Live, or Pending  *)
(* or Live to Won, Lost, Cancelled or Completed: never back to Pending, never   *)
(* away from Won, Lost, Cancelled or Completed.                                 *)
C31_StatusChangesAllowed ==
    [][\A b \in BetIds :
          StatusChanges(b) => <<bets[b].status, bets'[b].status>> \in AllowedChanges]_vars

\* bet b was fetched by the run under way and cancelled since
CancelledInRun(b) ==
    /\ pc # "idle"
    /\ b \in DOMAIN active_bets
    /\ bets[b].status = "Cancelled"

(* C32: a bet cancelled by cancel_active_bets after a run fetched it stays      *)
(* Cancelled through every later step of that run, the update of its status     *)
(* and the end of the run included.                                             *)
C32_CancelledKept ==
    [][\A b \in BetIds : CancelledInRun(b) => bets'[b].status = "Cancelled"]_vars

\* the number of rows of message_log
Rows(log) == Total(log, DOMAIN log)

(* C33: every step of a run adds to messages_queued the number of records it    *)
(* inserts into message_log (counted while no record has reached MaxCopies), so *)
(* that the count of the summary at the end of the run is the number of records *)
(* the run inserted.                                                            *)
C33_QueuedCountsInserted ==
    [][(pc # "idle" /\ \A r \in DOMAIN message_log' : message_log'[r] < MaxCopies) =>
          tracking_summary'.messages_queued - tracking_summary.messages_queued
             = Rows(message_log') - Rows(message_log)]_vars

\* the hit condition of bet b on the stored stat line and scores of its game
HitOnStored(b) ==
    Hits(b, CurrentValue(bets[b], player_game_stats[b], games[bets[b].game]))

(* C34: a step sets a bet to Lost, in the ledger update or in the sweep, only   *)
(* if the hit condition of the bet is false on the values the last feed of its  *)
(* game left in the tables, also in a run in which a call raised.               *)
C34_LostOnlyIfNotHit ==
    [][\A b \in BetIds :
          (bets'[b].status = "Lost" /\ bets[b].status # "Lost") => ~HitOnStored(b)']_vars

(* C35: a step sets a bet with operator under to Won only in an evaluation in   *)
(* which the feed reports its game final: with the game scheduled or in         *)
(* progress a value still below the target does not make the bet Won.           *)
C35_UnderWonOnlyWhenFinal ==
    [][\A b \in BetIds :
          (/\ Lower(bets[b].operator) = "under"
           /\ bets'[b].status = "Won"
           /\ bets[b].status # "Won") => game_update.is_final]_vars

(* C36: an evaluation in which the feed reports the game final records no       *)
(* milestone notification for the bet, and, when no call raises and the bet is  *)
(* hit, records one won notification.                                           *)
C36_NoMilestoneWhenFinal ==
    [][\A b \in BetIds :
          (Evaluating(b) /\ game_update.is_final) =>
              /\ Emitted(b) = {}
              /\ (EvaluateOk /\ ProgressOf(b).is_hit) =>
                    CountIn(message_log', WonRow(b)) =
                        Min(MaxCopies, CountIn(message_log, WonRow(b)) + 1)]_vars

\* a bet on home runs over 2 evaluated once, on a final feed with 3 home runs:
\* the ledger holds the key of the first-progress milestone, message_log the won
\* record only
C36_Witness ==
    /\ failures = 0
    /\ HomeRunsOverTwo("b1")
    /\ bets["b1"].status = "Won"
    /\ Finished("g1")
    /\ bet_tracking["b1"].current_value = 3
    /\ DOMAIN bet_tracking["b1"].milestone_alerts = {"1"}
    /\ MilestoneRows(message_log, "b1") = {}
    /\ CountIn(message_log, WonRow("b1")) = 1

(* C37: no step of a tracker run modifies the row of a game whose stored status *)
(* is Final, Game Over or Completed; a game that is terminal when a run fetches *)
(* its active bets therefore keeps its status, inning and scores to the end of  *)
(* the run.                                                                     *)
C37_TerminalGameUntouched ==
    [][\A g \in GameIds : Finished(g) => games'[g] = games[g]]_vars

\* a run that fetched the bet of game g2 alone has updated g2 and evaluates the
\* bet, while game g1 is stored Final with the row an earlier run wrote
C37_Witness ==
    /\ pc = "bets"
    /\ DOMAIN active_bets = {"b2"}
    /\ games["g2"].status = "In Progress" /\ games["g2"].inning = 1
    /\ Finished("g1") /\ games["g1"].inning = 9

\* record i of the queue is pending and its send time has passed
Due(i) ==
    /\ i <= Len(fn.queue)
    /\ fn.queue[i].delivery_status = "pending"
    /\ fn.queue[i].scheduled_send_time <= fn.now

\* record i of the queue is marked sent or failed
Retired(i) ==
    /\ i <= Len(fn.queue)
    /\ fn.queue[i].delivery_status \in {"sent", "failed"}

(* C38: under repeated runs of process_message_queue every record, of any kind, *)
(* that is pending with its send time passed is eventually marked sent or       *)
(* failed.                                                                      *)
C38_EventuallyRetired ==
    \A i \in 1..(MaxMessages + Cardinality(GameIds) * Len(PRE_GAME_ALERTS)) :
        Due(i) ~> Retired(i)

\* the pregame records of the queue
PregameRows(queue) == {i \in 1..Len(queue) : queue[i].message_type = "pregame"}

(* C39: scheduling the pregame alerts is idempotent: after a call of            *)
(* schedule_todays_pregame_alerts a second call with the same bets, games and   *)
(* clock adds no record; the queue never holds two pregame records for the same *)
(* game, community and alert time; and every record a call adds is scheduled    *)
(* for a time later than the clock of the call.                                 *)
C39_PregameIdempotent ==
    [][schedule_todays_pregame_alerts =>
          /\ Scheduled(fn'.queue, Groups(TodaysBets), fn.game_time, fn.now) = fn'.queue
          /\ \A i, j \in PregameRows(fn'.queue) :
                (/\ fn'.queue[i].game_id = fn'.queue[j].game_id
                 /\ fn'.queue[i].community_name = fn'.queue[j].community_name
                 /\ fn'.queue[i].scheduled_send_time = fn'.queue[j].scheduled_send_time)
                => i = j
          /\ \A i \in (Len(fn.queue) + 1)..Len(fn'.queue) :
                fn'.queue[i].scheduled_send_time > fn.now]_vars

\* the alert times of the pregame records of game g
AlertTimes(queue, g) ==
    {queue[i].scheduled_send_time : i \in {j \in PregameRows(queue) : queue[j].game_id = g}}

\* the scheduler was first called ten minutes after the time of the first alert
\* of g1 (120 minutes before its first pitch), and twenty minutes have passed:
\* that alert has no record, the later ones and the two of g2 still to come
\* at the call have one each
C39_Witness ==
    /\ fn.now = 3
    /\ AlertTimes(fn.queue, "g1") = {10, 12}
    /\ AlertTimes(fn.queue, "g2") = {2, 4}
    /\ Cardinality(PregameRows(fn.queue)) = 4

=============================================================================
